---- MODULE Spec2Model ----
(***************************************************************************)
(* State-machine model of movie_agent.py: the daily run (main), the        *)
(* history store (load_history / save_history / was_recently_sent), the    *)
(* catalog discovery (discover_movies / get_movies_for_theme) and the      *)
(* overview truncation (truncate).                                         *)
(*                                                                         *)
(* Conventions                                                             *)
(*   - a date object is its proleptic Gregorian ordinal (date.toordinal);  *)
(*   - a "YYYY-MM-DD" text is the record of its three fields, so that      *)
(*     isoformat / fromisoformat are real conversions;                     *)
(*   - ratings are in tenths (5.0 is 50);                                  *)
(*   - a text is a sequence of characters, " " being whitespace.           *)
(***************************************************************************)
EXTENDS Integers, Sequences, FiniteSets, TLC

VARIABLES
    missing,      \* the settings absent from the process environment (lines 7-10)
    file,         \* movie_history.json on disk
    clock,        \* the last day the system clock was read
    runs,         \* number of runs the model still explores
    pc,           \* position of the running operation
    today,        \* main: today
    cutoff,       \* main: cutoff
    history,      \* main: history (in memory)
    candidates,   \* main: candidates (after the sort)
    idx,          \* main: position of the selection walk in candidates
    chosen,       \* main: chosen
    used_ids,     \* main: used_ids
    calls,        \* the network requests made by the current run
    histio,       \* the history-file operations made by the current run
    printed,      \* the lines the current run wrote to standard output
    sink,         \* the bodies the current run posted to the messaging API
    exc,          \* the exception that ended the current run, if any
    file0,        \* the history file as it was when the current run started
    failed,       \* the ids whose detail request failed in the current run
    theme,        \* get_movies_for_theme: theme
    part,         \* get_movies_for_theme: which discover_movies call is running
    page,         \* discover_movies: page
    all_results,  \* discover_movies: all_results
    results_a,    \* get_movies_for_theme: results_a
    fetched,      \* get_movies_for_theme: the returned list
    asked_id,     \* was_recently_sent: the movie_id asked about
    text,         \* truncate: text
    ret           \* the value returned by the function under study

mainVars == <<missing, file, clock, runs, today, cutoff, history, candidates,
              idx, chosen, used_ids, calls, histio, printed, sink, exc, file0,
              failed>>
discVars == <<theme, part, page, all_results, results_a, fetched>>
fnVars == <<asked_id, text, ret>>
vars == <<mainVars, discVars, fnVars, pc>>

----------------------------------------------------------------------------
(* Program constants *)

MIN_RATING == 50

NO_REPEAT_DAYS == 180

MaxChosen == 3

max_pages == 3

EllipsisLen == 3

----------------------------------------------------------------------------
(* Bounds of the model *)

MaxId == 5

MaxCands == 4

MaxRuns == 2

MaxFileItems == 1

MaxMissing == 1

MaxPageLen == 1

MaxText == 9

TruncLen == 6

----------------------------------------------------------------------------
(* datetime.date: ordinals, isoformat, fromisoformat *)

IsLeap(y) == y % 4 = 0 /\ (y % 100 /= 0 \/ y % 400 = 0)

DaysInMonth(y, m) ==
    IF m = 2 THEN (IF IsLeap(y) THEN 29 ELSE 28)
    ELSE IF m \in {4, 6, 9, 11} THEN 30 ELSE 31

DaysBeforeYear(y) ==
    LET p == y - 1 IN p * 365 + (p \div 4) - (p \div 100) + (p \div 400)

RECURSIVE DaysBeforeMonth(_, _)
DaysBeforeMonth(y, m) ==
    IF m <= 1 THEN 0 ELSE DaysBeforeMonth(y, m - 1) + DaysInMonth(y, m - 1)

Ymd2Ord(y, m, d) == DaysBeforeYear(y) + DaysBeforeMonth(y, m) + d

Ord2Ymd(ord) ==
    LET n0   == ord - 1
        n400 == n0 \div 146097
        r400 == n0 % 146097
        n100 == r400 \div 36524
        r100 == r400 % 36524
        n4   == r100 \div 1461
        r4   == r100 % 1461
        n1   == r4 \div 365
        n    == r4 % 365
        year == n400 * 400 + 1 + n100 * 100 + n4 * 4 + n1
    IN  IF n1 = 4 \/ n100 = 4
        THEN [y |-> year - 1, m |-> 12, d |-> 31]
        ELSE LET mm == CHOOSE k \in 1..12 :
                          /\ DaysBeforeMonth(year, k) <= n
                          /\ n < DaysBeforeMonth(year, k) + DaysInMonth(year, k)
             IN  [y |-> year, m |-> mm, d |-> n - DaysBeforeMonth(year, mm) + 1]

Epoch == Ymd2Ord(1970, 1, 1)

\* The JSON value under "date": t = "iso" is a text of the form YYYY-MM-DD
\* with the fields y, m, d; "garbage" any other text; "nonstr" a value that is
\* not a text (null, a number); "none" no "date" key at all.
DateText(y, m, d) == [t |-> "iso", y |-> y, m |-> m, d |-> d]

GarbageText == [t |-> "garbage", y |-> 0, m |-> 0, d |-> 0]

NonStr == [t |-> "nonstr", y |-> 0, m |-> 0, d |-> 0]

NoDate == [t |-> "none", y |-> 0, m |-> 0, d |-> 0]

isoformat(ord) == LET f == Ord2Ymd(ord) IN DateText(f.y, f.m, f.d)

\* What date.fromisoformat does with the value: "ok", "ValueError", "TypeError".
IsoOutcome(v) ==
    IF v.t = "nonstr" THEN "TypeError"
    ELSE IF v.t = "iso" /\ v.y \in 1..9999 /\ v.m \in 1..12
            /\ v.d >= 1 /\ v.d <= DaysInMonth(v.y, v.m) THEN "ok"
    ELSE "ValueError"

fromisoformat(v) == Ymd2Ord(v.y, v.m, v.d)

----------------------------------------------------------------------------
(* The history store *)

\* An element of the JSON list: k = "entry" is an object with "id" and
\* "date", "legacy" a bare integer id, "other" anything else.
Entry(id, date) == [k |-> "entry", id |-> id, date |-> date]

Legacy(id) == [k |-> "legacy", id |-> id, date |-> NoDate]

Other == [k |-> "other", id |-> 0, date |-> NoDate]

\* The file: st = "missing", "corrupt" (json.load raises), "notlist" (a JSON
\* document that is not a list) or "list".
FileOf(st, items) == [st |-> st, items |-> items]

RECURSIVE Normalize(_)
Normalize(items) ==
    IF items = <<>> THEN <<>>
    ELSE LET item == Head(items)
             rest == Normalize(Tail(items))
         IN  IF item.k = "entry" THEN <<item>> \o rest
             ELSE IF item.k = "legacy"
                  THEN <<Entry(item.id, DateText(1970, 1, 1))>> \o rest
             ELSE rest

\* load_history without the migration of bare ids.
load_history_entries_only(f) ==
    IF f.st = "list" THEN SelectSeq(f.items, LAMBDA item : item.k = "entry") ELSE <<>>

load_history(f) ==
    IF f.st = "list" THEN Normalize(f.items) ELSE <<>>

\* was_recently_sent from entry i on: "True", "False" or "TypeError".
RECURSIVE RecentFrom(_, _, _, _)
RecentFrom(movie_id, hist, cutoff_date, i) ==
    IF i > Len(hist) THEN "False"
    ELSE LET entry == hist[i]
             value == IF entry.date.t = "none" THEN DateText(1970, 1, 1)
                      ELSE entry.date
         IN  IF entry.id /= movie_id
             THEN RecentFrom(movie_id, hist, cutoff_date, i + 1)
             ELSE IF IsoOutcome(value) = "TypeError" THEN "TypeError"
             ELSE LET d == IF IsoOutcome(value) = "ok" THEN fromisoformat(value)
                           ELSE Ymd2Ord(1970, 1, 1)
                  IN  IF d >= cutoff_date THEN "True"
                      ELSE RecentFrom(movie_id, hist, cutoff_date, i + 1)

was_recently_sent(movie_id, hist, cutoff_date) ==
    RecentFrom(movie_id, hist, cutoff_date, 1)

----------------------------------------------------------------------------
(* The catalog as the run sees it *)

MovieIds == 0..MaxId

\* vote_average (in tenths) and vote_count of the catalog's record for an id.
\* Id 0 stands for a record without a usable id, id 1 for a record under the
\* rating floor; the others tie in pairs on the rating.
VoteAverage(id) == IF id = 1 THEN 45 ELSE IF id % 2 = 1 THEN 80 ELSE 70

VoteCount(id) == IF id = 4 THEN 900 ELSE 500

Movie(id) ==
    [id |-> id, vote_average |-> VoteAverage(id), vote_count |-> VoteCount(id)]

\* The lists get_movies_for_theme can return to main.
RECURSIVE SeqsUpTo(_, _)
SeqsUpTo(S, n) ==
    IF n = 0 THEN {<<>>}
    ELSE LET shorter == SeqsUpTo(S, n - 1)
         IN  shorter \cup {Append(s, x) : s \in {t \in shorter : Len(t) = n - 1}, x \in S}

CandidateLists == SeqsUpTo({Movie(id) : id \in MovieIds}, MaxCands)

\* candidates.sort(key=(vote_average, vote_count), reverse=True): stable.
KeyLess(a, b) ==
    \/ a.vote_average < b.vote_average
    \/ a.vote_average = b.vote_average /\ a.vote_count < b.vote_count

RECURSIVE InsertSorted(_, _)
InsertSorted(sorted, m) ==
    IF sorted = <<>> THEN <<m>>
    ELSE IF KeyLess(Head(sorted), m) THEN <<m>> \o sorted
    ELSE <<Head(sorted)>> \o InsertSorted(Tail(sorted), m)

RECURSIVE SortCandidates(_)
SortCandidates(list) ==
    IF list = <<>> THEN <<>>
    ELSE InsertSorted(SortCandidates(SubSeq(list, 1, Len(list) - 1)), list[Len(list)])

----------------------------------------------------------------------------
(* main *)

Settings == {"TMDB_API_KEY", "ULTRA_INSTANCE_ID", "ULTRA_TOKEN", "WHATSAPP_TO"}

FirstDay == Ymd2Ord(2023, 11, 3)

\* How many days may pass between two runs.
Elapsed == {NO_REPEAT_DAYS - 1, NO_REPEAT_DAYS, NO_REPEAT_DAYS + 1}

\* What the history file may hold before the first run.
FileItems ==
    {Legacy(2), Other, Entry(2, GarbageText), Entry(2, NonStr),
     Entry(3, isoformat(FirstDay - 1))}

InitialFiles ==
    {FileOf("missing", <<>>), FileOf("corrupt", <<>>), FileOf("notlist", <<>>)}
    \cup {FileOf("list", items) : items \in SeqsUpTo(FileItems, MaxFileItems)}

NoFile == FileOf("missing", <<>>)

KeyMissing(env) == "TMDB_API_KEY" \in env

\* The send guard without the destination address.
UltraConfiguredNoTo(env) ==
    /\ "ULTRA_INSTANCE_ID" \notin env
    /\ "ULTRA_TOKEN" \notin env

UltraConfigured(env) ==
    /\ "ULTRA_INSTANCE_ID" \notin env
    /\ "ULTRA_TOKEN" \notin env
    /\ "WHATSAPP_TO" \notin env

\* The loop's own exits: the list is exhausted, or len(chosen) >= 3.
LoopEnded(cands, i, picked) == i > Len(cands) \/ Len(picked) >= MaxChosen

\* The id guard without the used_ids test.
AlreadyUsedNoSet(movie_id, used) == movie_id = 0

\* not movie_id or movie_id in used_ids
AlreadyUsed(movie_id, used) == movie_id = 0 \/ movie_id \in used

Ids(seq) == {seq[i].id : i \in 1..Len(seq)}

TodaysPicks(picked, day) ==
    [i \in 1..Len(picked) |-> Entry(picked[i].id, isoformat(day))]

\* build_whatsapp_message, reduced to what identifies the report.
Report(picked) == [kind |-> "report", ids |-> [i \in 1..Len(picked) |-> picked[i].id]]

NothingFound(picked) == picked = <<>>

\* The values of the variables an operation does not use.
RunIdle ==
    /\ today = 0
    /\ cutoff = 0
    /\ history = <<>>
    /\ candidates = <<>>
    /\ idx = 0
    /\ chosen = <<>>
    /\ used_ids = {}
    /\ calls = {}
    /\ histio = {}
    /\ printed = {}
    /\ sink = <<>>
    /\ exc = "none"
    /\ failed = {}

DiscIdle ==
    /\ theme = "none"
    /\ part = "none"
    /\ page = 0
    /\ all_results = <<>>
    /\ results_a = <<>>
    /\ fetched = <<>>

FnIdle ==
    /\ asked_id = 0
    /\ text = <<>>
    /\ ret = "none"

\* The settings and the history file vary one at a time.  A fresh install with
\* every setting present is followed for MaxRuns runs, the others for one.
Environments ==
    {[missing |-> s, file |-> NoFile, runs |-> IF s = {} THEN MaxRuns ELSE 1] :
        s \in {t \in SUBSET Settings : Cardinality(t) <= MaxMissing}}
    \cup {[missing |-> {}, file |-> f, runs |-> 1] : f \in InitialFiles \ {NoFile}}

InitMain ==
    /\ \E e \in Environments :
          /\ missing = e.missing
          /\ file = e.file
          /\ runs = e.runs
    /\ clock = FirstDay
    /\ pc = "idle"
    /\ file0 = file
    /\ RunIdle
    /\ DiscIdle
    /\ FnIdle

Init == InitMain

\* The process ends, and with it everything but the file.
Exit ==
    /\ pc = "done"
    /\ pc' = "idle"
    /\ today' = 0
    /\ cutoff' = 0
    /\ history' = <<>>
    /\ candidates' = <<>>
    /\ idx' = 0
    /\ chosen' = <<>>
    /\ used_ids' = {}
    /\ calls' = {}
    /\ histio' = {}
    /\ printed' = {}
    /\ sink' = <<>>
    /\ exc' = "none"
    /\ failed' = {}
    /\ file0' = file
    /\ UNCHANGED <<missing, file, clock, runs, discVars, fnVars>>

\* main, lines 462-464: no catalog key.
StartNoKey ==
    /\ pc = "idle"
    /\ runs > 0
    /\ KeyMissing(missing)
    /\ runs' = runs - 1
    /\ printed' = {"TMDB_API_KEY is not set. Exiting."}
    /\ pc' = "done"
    /\ UNCHANGED <<missing, file, clock, today, cutoff, history, candidates, idx,
                   chosen, used_ids, calls, histio, sink, exc, file0, failed,
                   discVars, fnVars>>

\* main, lines 466-471: load the history, read the clock.
StartRun ==
    /\ pc = "idle"
    /\ runs > 0
    /\ ~KeyMissing(missing)
    /\ runs' = runs - 1
    /\ today' = clock
    /\ cutoff' = clock - NO_REPEAT_DAYS
    /\ history' = load_history(file)
    /\ histio' = {"read"}
    /\ printed' = {"Today's theme"}
    /\ pc' = "discover"
    /\ UNCHANGED <<missing, file, clock, candidates, idx, chosen, used_ids, calls,
                   sink, exc, file0, failed, discVars, fnVars>>

\* main, lines 473-480: get_movies_for_theme returns, and the sort.
Discover ==
    /\ pc = "discover"
    /\ calls' = calls \cup {"discover"}
    /\ \E res \in CandidateLists :
          candidates' = SortCandidates(res)
    /\ idx' = 1
    /\ pc' = "walk"
    /\ UNCHANGED <<missing, file, clock, runs, today, cutoff, history, chosen,
                   used_ids, histio, printed, sink, exc, file0, failed,
                   discVars, fnVars>>

\* requests.get raises inside discover_movies (no handler on the way up).
DiscoverRaises ==
    /\ pc = "discover"
    /\ calls' = calls \cup {"discover"}
    /\ exc' = "ConnectionError"
    /\ pc' = "done"
    /\ UNCHANGED <<missing, file, clock, runs, today, cutoff, history, candidates,
                   idx, chosen, used_ids, histio, printed, sink, file0, failed,
                   discVars, fnVars>>

Walking == pc = "walk" /\ ~LoopEnded(candidates, idx, chosen)

\* What the three guards before the detail request decide for candidates[idx]:
\* "skip", "TypeError" or "fetch".
Guard(basic, used, hist, cut) ==
    IF AlreadyUsed(basic.id, used) THEN "skip"
    ELSE LET recent == was_recently_sent(basic.id, hist, cut)
         IN  IF recent = "TypeError" THEN "TypeError"
             ELSE IF recent = "True" THEN "skip"
             ELSE IF basic.vote_average < MIN_RATING THEN "skip"
             ELSE "fetch"

walkFrame == <<missing, file, clock, runs, today, cutoff, history, candidates,
               histio, sink, file0, discVars, fnVars>>

\* lines 489-500: one of the continue statements.
WalkSkip ==
    /\ Walking
    /\ Guard(candidates[idx], used_ids, history, cutoff) = "skip"
    /\ idx' = idx + 1
    /\ UNCHANGED <<walkFrame, chosen, used_ids, calls, printed, exc, failed, pc>>

\* line 84: date.fromisoformat raises TypeError, which nothing catches.
WalkTypeError ==
    /\ Walking
    /\ Guard(candidates[idx], used_ids, history, cutoff) = "TypeError"
    /\ exc' = "TypeError"
    /\ pc' = "done"
    /\ UNCHANGED <<walkFrame, idx, chosen, used_ids, calls, printed, failed>>

\* lines 502-507: the detail request answers 200.
DetailOk ==
    /\ Walking
    /\ Guard(candidates[idx], used_ids, history, cutoff) = "fetch"
    /\ calls' = calls \cup {"details"}
    /\ chosen' = Append(chosen, [id |-> candidates[idx].id])
    /\ used_ids' = used_ids \cup {candidates[idx].id}
    /\ idx' = idx + 1
    /\ UNCHANGED <<walkFrame, printed, exc, failed, pc>>

\* lines 202-204, 503-504: the detail request answers another status.
DetailNot200 ==
    /\ Walking
    /\ Guard(candidates[idx], used_ids, history, cutoff) = "fetch"
    /\ calls' = calls \cup {"details"}
    /\ printed' = printed \cup {"TMDB movie details error"}
    /\ failed' = failed \cup {candidates[idx].id}
    /\ idx' = idx + 1
    /\ UNCHANGED <<walkFrame, chosen, used_ids, exc, pc>>

\* line 201: requests.get raises (no handler on the way up).
DetailRaises ==
    /\ Walking
    /\ Guard(candidates[idx], used_ids, history, cutoff) = "fetch"
    /\ calls' = calls \cup {"details"}
    /\ failed' = failed \cup {candidates[idx].id}
    /\ exc' = "ConnectionError"
    /\ pc' = "done"
    /\ UNCHANGED <<walkFrame, idx, chosen, used_ids, printed>>

\* lines 509-511: nothing was chosen.
FinishNothing ==
    /\ pc = "walk"
    /\ LoopEnded(candidates, idx, chosen)
    /\ NothingFound(chosen)
    /\ printed' = printed \cup {"No suitable movies found today."}
    /\ pc' = "done"
    /\ UNCHANGED <<walkFrame, idx, chosen, used_ids, calls, exc, failed>>

\* save_history: the write succeeds, open() fails, or the dump fails after
\* open() has truncated the file.
Saved(f, hist, how) ==
    IF how = "ok" THEN FileOf("list", hist)
    ELSE IF how = "open fails" THEN f
    ELSE FileOf("corrupt", <<>>)

\* send_whatsapp_message: the bodies posted, the requests made, the lines printed.
Posted(env, body) == IF UltraConfigured(env) THEN <<body>> ELSE <<>>

SendCalls(env) == IF UltraConfigured(env) THEN {"ultramsg"} ELSE {}

SendLines(env, how) ==
    IF ~UltraConfigured(env) THEN {"Missing UltraMsg configuration", "the message"}
    ELSE IF how = "ok" THEN {"UltraMsg response"}
    ELSE {"Failed to send WhatsApp message"}

\* lines 513-521: history, report, send.
FinishReport ==
    /\ pc = "walk"
    /\ LoopEnded(candidates, idx, chosen)
    /\ ~NothingFound(chosen)
    /\ history' = history \o TodaysPicks(chosen, today)
    /\ \E save \in {"ok", "open fails", "dump fails"}, post \in {"ok", "raises"} :
          /\ file' = Saved(file, history', save)
          /\ printed' = printed
                \cup (IF save = "ok" THEN {} ELSE {"Failed to save history"})
                \cup {"Final WhatsApp message"}
                \cup SendLines(missing, post)
    /\ histio' = histio \cup {"write"}
    /\ calls' = calls \cup {"providers"} \cup SendCalls(missing)
    /\ sink' = Posted(missing, Report(chosen))
    /\ pc' = "done"
    /\ UNCHANGED <<missing, clock, runs, today, cutoff, candidates, idx, chosen,
                   used_ids, exc, file0, failed, discVars, fnVars>>

\* Time passes between two runs.
DaysPass ==
    /\ pc = "idle"
    /\ runs > 0
    /\ clock = FirstDay
    /\ \E e \in Elapsed : clock' = clock + e
    /\ UNCHANGED <<missing, file, runs, today, cutoff, history, candidates, idx,
                   chosen, used_ids, calls, histio, printed, sink, exc, file0,
                   failed, discVars, fnVars, pc>>

Next ==
    \/ DaysPass
    \/ Exit
    \/ StartNoKey
    \/ StartRun
    \/ Discover
    \/ DiscoverRaises
    \/ WalkSkip
    \/ WalkTypeError
    \/ DetailOk
    \/ DetailNot200
    \/ DetailRaises
    \/ FinishNothing
    \/ FinishReport

Spec == Init /\ [][Next]_vars

----------------------------------------------------------------------------
(* Properties of a run *)

RunDone == pc = "done" /\ "read" \in histio /\ exc = "none"

UltraSettings == {"ULTRA_INSTANCE_ID", "ULTRA_TOKEN", "WHATSAPP_TO"}

\* C1: the items chosen by one run never hold two items with the same id and
\* never more than three items.
C1_DistinctAtMostThree ==
    /\ Len(chosen) <= 3
    /\ \A i, j \in 1..Len(chosen) : i /= j => chosen[i].id /= chosen[j].id

\* A run that stopped at three items with a further selectable candidate left.
C1_Witness ==
    /\ RunDone
    /\ Len(chosen) = 3
    /\ idx <= Len(candidates)
    /\ candidates[idx].id \notin Ids(chosen) \cup {0}
    /\ candidates[idx].vote_average >= MIN_RATING

\* The day a history entry was sent on, when its date is a valid date text.
SentOn(entry) == fromisoformat(entry.date)

\* C3 (as claimed): an id sent on day D is skipped by a run on day D' when
\* D' - D < 180 and is not skipped by the history check when D' - D >= 180.
C3_WindowOf180 ==
    pc = "walk" =>
        \A id \in MovieIds :
            (/\ \E i \in 1..Len(history) : history[i].id = id
             /\ \A i \in 1..Len(history) :
                   history[i].id = id => IsoOutcome(history[i].date) = "ok")
            => (was_recently_sent(id, history, cutoff) = "True"
                <=> \E i \in 1..Len(history) :
                       /\ history[i].id = id
                       /\ today - SentOn(history[i]) < 180)

\* C3, what the history check does instead: skipped while D' - D <= 180.
C3_WindowOf181 ==
    pc = "walk" =>
        \A id \in MovieIds :
            (/\ \E i \in 1..Len(history) : history[i].id = id
             /\ \A i \in 1..Len(history) :
                   history[i].id = id => IsoOutcome(history[i].date) = "ok")
            => (was_recently_sent(id, history, cutoff) = "True"
                <=> \E i \in 1..Len(history) :
                       /\ history[i].id = id
                       /\ today - SentOn(history[i]) <= 180)

\* C4 (as claimed): with any required setting absent the run makes no network
\* call, does not touch the history and sends nothing.
C4_AnyMissingSettingAborts ==
    missing /= {} => calls = {} /\ histio = {} /\ sink = <<>> /\ file = file0

\* C4 (amended): without the catalog key the run makes no network call and
\* does not touch the history; without a messaging setting the run makes no
\* messaging request.
C4_KeyAbortsUltraSkipsSend ==
    /\ "TMDB_API_KEY" \in missing
          => calls = {} /\ histio = {} /\ sink = <<>> /\ file = file0
    /\ missing \cap UltraSettings /= {}
          => "ultramsg" \notin calls /\ sink = <<>>

\* A run without the messaging token that queried the catalog, wrote the
\* history and printed the report instead of sending it.
C4_Witness ==
    /\ RunDone
    /\ missing = {"ULTRA_TOKEN"}
    /\ chosen /= <<>>
    /\ {"discover", "details"} \subseteq calls
    /\ "write" \in histio
    /\ "Missing UltraMsg configuration" \in printed

\* C5 (as claimed): a run that ends with nothing chosen delivers a message to
\* the notification sink.
C5_NothingFoundIsDelivered ==
    (RunDone /\ missing = {} /\ chosen = <<>>) => sink /= <<>>

\* C5, what the run does instead: it prints the "no suitable movies" line,
\* posts nothing and leaves the history file as it was.
C5_NothingFoundIsPrinted ==
    (RunDone /\ missing = {} /\ chosen = <<>>) =>
        /\ "No suitable movies found today." \in printed
        /\ sink = <<>>
        /\ "ultramsg" \notin calls
        /\ "write" \notin histio
        /\ file = file0

\* C5: a run whose candidates were all sent within the window.
C5_AllRecentlySent ==
    /\ RunDone
    /\ missing = {}
    /\ chosen = <<>>
    /\ candidates /= <<>>
    /\ \A i \in 1..Len(candidates) :
          /\ candidates[i].id /= 0
          /\ candidates[i].vote_average >= MIN_RATING
          /\ \E k \in 1..Len(history) :
                /\ history[k].id = candidates[i].id
                /\ today - SentOn(history[k]) < 180

\* C6 (as claimed): no failure of a catalog call ends the run, and a candidate
\* whose detail request failed is not chosen.
C6_CatalogFailureIsContained ==
    /\ exc /= "ConnectionError"
    /\ \A id \in failed \cap Ids(chosen) :
          \E i, j \in 1..Len(candidates) :
              i /= j /\ candidates[i].id = id /\ candidates[j].id = id

\* Whether an element of the file before is in the list after, a bare id
\* counting as present in its migrated form.
StillPresent(item, items) ==
    \E j \in 1..Len(items) :
        \/ items[j] = item
        \/ item.k = "legacy" /\ items[j] = Entry(item.id, DateText(1970, 1, 1))

EligibleIds ==
    {candidates[i].id : i \in {k \in 1..Len(candidates) :
        candidates[k].id /= 0 /\ candidates[k].vote_average >= MIN_RATING}}

\* C8 (as claimed): from an empty history, with three eligible candidates whose
\* detail requests do not fail, the run ends with three items chosen and the
\* history holding exactly their ids dated today.
C8_ThreeChosenThreeRecorded ==
    (/\ pc = "done"
     /\ "read" \in histio
     /\ load_history(file0) = <<>>
     /\ Cardinality(EligibleIds \ failed) >= 3)
    => /\ Len(chosen) = 3
       /\ Len(history) = 3
       /\ \A i \in 1..3 :
             /\ history[i].id = chosen[i].id
             /\ IsoOutcome(history[i].date) = "ok"
             /\ SentOn(history[i]) = today

\* C8, restricted to the runs that no exception ended.
C8_WhenNothingRaises ==
    (/\ RunDone
     /\ load_history(file0) = <<>>
     /\ Cardinality(EligibleIds \ failed) >= 3)
    => /\ Len(chosen) = 3
       /\ Len(history) = 3
       /\ \A i \in 1..3 :
             /\ history[i].id = chosen[i].id
             /\ IsoOutcome(history[i].date) = "ok"
             /\ SentOn(history[i]) = today

----------------------------------------------------------------------------
(* was_recently_sent on the histories load_history produces *)

\* The cutoffs asked about: around the epoch and around a recent day.
Cutoffs == {Epoch - 1, Epoch, Epoch + 1, FirstDay - 1, FirstDay}

RecentItems ==
    {Legacy(1), Other,
     Entry(1, isoformat(FirstDay)), Entry(1, isoformat(FirstDay - 1)),
     Entry(1, GarbageText), Entry(1, DateText(2023, 2, 30)), Entry(1, NonStr),
     Entry(2, isoformat(FirstDay))}

InitRecent ==
    /\ file \in {FileOf("list", items) : items \in SeqsUpTo(RecentItems, 2)}
             \cup {FileOf("missing", <<>>), FileOf("corrupt", <<>>)}
    /\ asked_id \in {1, 2}
    /\ cutoff \in Cutoffs
    /\ pc = "r_load"
    /\ missing = {}
    /\ runs = 0
    /\ clock = FirstDay
    /\ file0 = file
    /\ today = 0
    /\ history = <<>>
    /\ candidates = <<>>
    /\ idx = 0
    /\ chosen = <<>>
    /\ used_ids = {}
    /\ calls = {}
    /\ histio = {}
    /\ printed = {}
    /\ sink = <<>>
    /\ exc = "none"
    /\ failed = {}
    /\ DiscIdle
    /\ text = <<>>
    /\ ret = "none"

RecentLoad ==
    /\ pc = "r_load"
    /\ history' = load_history(file)
    /\ pc' = "r_check"
    /\ UNCHANGED <<missing, file, clock, runs, today, cutoff, candidates, idx,
                   chosen, used_ids, calls, histio, printed, sink, exc, file0,
                   failed, discVars, fnVars>>

RecentCheck ==
    /\ pc = "r_check"
    /\ ret' = was_recently_sent(asked_id, history, cutoff)
    /\ pc' = "r_done"
    /\ UNCHANGED <<mainVars, discVars, asked_id, text>>

NextRecent == RecentLoad \/ RecentCheck

SpecRecent == InitRecent /\ [][NextRecent]_vars

\* The day a "date" value stands for when unparseable values count as the epoch.
DateOrEpoch(v) ==
    IF v.t = "iso" /\ v.m \in 1..12 /\ v.d \in 1..DaysInMonth(v.y, v.m) /\ v.y \in 1..9999
    THEN Ymd2Ord(v.y, v.m, v.d)
    ELSE Ymd2Ord(1970, 1, 1)

InWindow(items, id, cut) ==
    \E i \in 1..Len(items) :
        items[i].k = "entry" /\ items[i].id = id /\ DateOrEpoch(items[i].date) >= cut

\* C2 (as claimed): was_recently_sent returns true exactly when some entry of
\* the id has a date on or after the cutoff, unparseable dates counting as the
\* epoch, and an entry migrated from a bare id never makes it return true.
C2_TrueIffEntryInWindow ==
    pc = "r_done" =>
        /\ ret \in {"True", "False"}
        /\ ret = "True" <=> InWindow(history, asked_id, cutoff)
        /\ ret = "True" => InWindow(file.items, asked_id, cutoff)

\* C2, restricted to dates that are texts and cutoffs after the epoch.
C2_TextDatesLateCutoff ==
    (/\ pc = "r_done"
     /\ cutoff > Epoch
     /\ \A i \in 1..Len(history) :
           history[i].id = asked_id => history[i].date.t /= "nonstr")
    => /\ ret \in {"True", "False"}
       /\ ret = "True" <=> InWindow(history, asked_id, cutoff)
       /\ ret = "True" => InWindow(file.items, asked_id, cutoff)

----------------------------------------------------------------------------
(* get_theme_for_today, get_movies_for_theme, discover_movies *)

ThemeFor(weekday) ==
    IF weekday \in {0, 1, 2, 3} THEN "mix"
    ELSE IF weekday = 4 THEN "horror_thriller"
    ELSE IF weekday = 5 THEN "mystery_war_bollywood"
    ELSE "comedy_feelgood"

\* The records a discovery page may hold: the same id may come back with
\* another vote_count from another request.
PageMovies ==
    {[id |-> id, vote_average |-> VoteAverage(id), vote_count |-> c] :
        id \in {2, 3}, c \in {500, 501}}

Pages == SeqsUpTo(PageMovies, MaxPageLen) \ {<<>>}

RECURSIVE IndexOfId(_, _, _)
IndexOfId(acc, id, i) ==
    IF i > Len(acc) THEN 0
    ELSE IF acc[i].id = id THEN i
    ELSE IndexOfId(acc, id, i + 1)

\* merged = {}; for m in list: merged[m["id"]] = m; list(merged.values())
RECURSIVE MergeInto(_, _)
MergeInto(acc, list) ==
    IF list = <<>> THEN acc
    ELSE LET m == Head(list)
             at == IndexOfId(acc, m.id, 1)
         IN  MergeInto(IF at = 0 THEN Append(acc, m) ELSE [acc EXCEPT ![at] = m],
                       Tail(list))

MergeById(list) == MergeInto(<<>>, list)

InitDiscover ==
    /\ theme \in {ThemeFor(weekday) : weekday \in 0..6}
    /\ pc = "d_call"
    /\ part = "none"
    /\ page = 0
    /\ all_results = <<>>
    /\ results_a = <<>>
    /\ fetched = <<>>
    /\ missing = {}
    /\ file = NoFile
    /\ file0 = NoFile
    /\ runs = 0
    /\ clock = FirstDay
    /\ RunIdle
    /\ FnIdle

discFrame == <<missing, file, clock, runs, today, cutoff, history, candidates,
               idx, chosen, used_ids, calls, histio, printed, sink, file0,
               failed, fnVars, theme>>

\* get_movies_for_theme up to its first discover_movies call.
ThemeCall ==
    /\ pc = "d_call"
    /\ part' = IF theme = "mystery_war_bollywood" THEN "a" ELSE "only"
    /\ page' = 1
    /\ pc' = "d_page"
    /\ UNCHANGED <<discFrame, exc, all_results, results_a, fetched>>

\* discover_movies returns res: the next call, the merge, or the plain return.
Returns(res) ==
    IF part = "a"
    THEN /\ results_a' = res
         /\ part' = "b"
         /\ page' = 1
         /\ all_results' = <<>>
         /\ UNCHANGED <<fetched, pc>>
    ELSE /\ fetched' = IF part = "b" THEN MergeById(results_a \o res) ELSE res
         /\ all_results' = res
         /\ pc' = "d_done"
         /\ UNCHANGED <<results_a, part, page>>

\* lines 125-135: a page with results.
PageResults ==
    /\ pc = "d_page"
    /\ \E results \in Pages :
          IF page = max_pages
          THEN Returns(all_results \o results)
          ELSE /\ all_results' = all_results \o results
               /\ page' = page + 1
               /\ UNCHANGED <<results_a, fetched, part, pc>>
    /\ UNCHANGED <<discFrame, exc>>

\* lines 126-128 and 132-133: a status other than 200, or an empty page.
PageBreaks ==
    /\ pc = "d_page"
    /\ Returns(all_results)
    /\ UNCHANGED <<discFrame, exc>>

\* line 125: requests.get raises; neither function has a handler.
PageRaises ==
    /\ pc = "d_page"
    /\ exc' = "ConnectionError"
    /\ pc' = "d_done"
    /\ UNCHANGED <<discFrame, part, page, all_results, results_a, fetched>>

NextDiscover == ThemeCall \/ PageResults \/ PageBreaks \/ PageRaises

SpecDiscover == InitDiscover /\ [][NextDiscover]_vars

\* The elements of a list whose id does not occur before them.
RECURSIVE FirstOccurrences(_, _)
FirstOccurrences(list, seen) ==
    IF list = <<>> THEN <<>>
    ELSE IF Head(list).id \in seen THEN FirstOccurrences(Tail(list), seen)
    ELSE <<Head(list)>> \o FirstOccurrences(Tail(list), seen \cup {Head(list).id})

Merged == pc = "d_done" /\ exc = "none" /\ theme = "mystery_war_bollywood"

\* C9 (as claimed): the merged result holds each id once, at the place of its
\* first occurrence in results_a + results_b, with the record of that first
\* occurrence.
C9_FirstOccurrenceWins ==
    Merged => fetched = FirstOccurrences(results_a \o all_results, {})

\* C9, what the merge keeps instead: the place of the first occurrence and
\* the record of the last one.
C9_FirstPlaceLastRecord ==
    Merged =>
        LET both  == results_a \o all_results
            first == FirstOccurrences(both, {})
        IN  /\ Len(fetched) = Len(first)
            /\ \A i \in 1..Len(first) :
                  /\ fetched[i].id = first[i].id
                  /\ \E k \in 1..Len(both) :
                        /\ both[k] = fetched[i]
                        /\ \A n \in (k + 1)..Len(both) : both[n].id /= fetched[i].id

----------------------------------------------------------------------------
(* truncate *)

Chars == {"a", " "}

RECURSIVE LStrip(_)
LStrip(t) == IF t /= <<>> /\ Head(t) = " " THEN LStrip(Tail(t)) ELSE t

RECURSIVE RStrip(_)
RStrip(t) ==
    IF t /= <<>> /\ t[Len(t)] = " " THEN RStrip(SubSeq(t, 1, Len(t) - 1)) ELSE t

Strip(t) == RStrip(LStrip(t))

Ellipsis == <<".", ".", ".">>

truncate(t, max_len) ==
    IF t = <<>> THEN <<>>
    ELSE LET s == Strip(t)
         IN  IF Len(s) <= max_len THEN s
             ELSE RStrip(SubSeq(s, 1, max_len - EllipsisLen)) \o Ellipsis

InitTruncate ==
    /\ text \in SeqsUpTo(Chars, MaxText)
    /\ ret = "none"
    /\ asked_id = 0
    /\ pc = "t_call"
    /\ missing = {}
    /\ file = NoFile
    /\ file0 = NoFile
    /\ runs = 0
    /\ clock = FirstDay
    /\ RunIdle
    /\ DiscIdle

Truncate ==
    /\ pc = "t_call"
    /\ ret' = truncate(text, TruncLen)
    /\ pc' = "t_done"
    /\ UNCHANGED <<mainVars, discVars, asked_id, text>>

NextTruncate == Truncate

SpecTruncate == InitTruncate /\ [][NextTruncate]_vars

Returned == pc = "t_done"

EndsWithEllipsis(t) ==
    Len(t) >= 3 /\ SubSeq(t, Len(t) - 2, Len(t)) = <<".", ".", ".">>

\* The cut after character k of s falls inside a word.
SplitsWord(s, k) == k >= 1 /\ k < Len(s) /\ s[k] /= " " /\ s[k + 1] /= " "

\* C10 (as claimed): a text longer than the maximum comes back no longer than
\* the maximum, ending with the ellipsis, and cut at a word boundary whenever
\* the kept prefix has one; a shorter text comes back stripped, unchanged.
C10_WordSafeTruncation ==
    Returned =>
        LET s == Strip(text)
            k == Len(ret) - 3
        IN  IF Len(s) > TruncLen
            THEN /\ Len(ret) <= TruncLen
                 /\ EndsWithEllipsis(ret)
                 /\ SubSeq(s, 1, k) = SubSeq(ret, 1, k)
                 /\ (\E i \in 1..(TruncLen - 3) : s[i] = " ") => ~SplitsWord(s, k)
            ELSE ret = s

\* C10, what truncate does instead: the body is the first TruncLen - 3
\* characters less their trailing whitespace, wherever that cut falls.
C10_HardCut ==
    Returned =>
        LET s == Strip(text)
            k == Len(ret) - 3
        IN  IF Len(s) > TruncLen
            THEN /\ Len(ret) <= TruncLen
                 /\ EndsWithEllipsis(ret)
                 /\ k <= TruncLen - 3
                 /\ SubSeq(s, 1, k) = SubSeq(ret, 1, k)
                 /\ \A i \in (k + 1)..(TruncLen - 3) : s[i] = " "
                 /\ k >= 1 => s[k] /= " "
            ELSE ret = s

====
